---- MODULE Spec2Model ----
(***************************************************************************)
(* A model of the multi-staircase trial handler of PsychoJS                *)
(* (src/src/data/MultiStairHandler.js): construction, addResponse and the  *)
(* trial-selection step _nextTrial, with the QuestHandler procedures, the  *)
(* random source and the util helpers it calls modelled from the           *)
(* specification's description of their interfaces.                        *)
(***************************************************************************)
EXTENDS Integers, Sequences, FiniteSets, TLC

VARIABLES
    options,       \* the argument object given to the constructor
    phase,         \* "new" before the constructor runs, then "ready" or "failed"
    mh,            \* the MultiStairHandler object (its fields)
    twin,          \* a second MultiStairHandler built from the same options (SpecPair)
    call,          \* the most recent call on the handler: its arguments
    thrown,        \* what the most recent call threw: <<>> or <<error>>
    addDataCalls,  \* the experiment.addData calls issued by the most recent call
    forwarded,     \* the staircase.addResponse calls issued by the most recent call
    selections,    \* the staircases made current so far, one entry per pick
    events,        \* what the most recent call did, in the order it did it
    gui            \* the GUI object, the dialog box it shows and the caller's dictionary

vars == <<options, phase, mh, twin, call, thrown, addDataCalls, forwarded, selections,
          events, gui>>

-----------------------------------------------------------------------------
(* Bounds of the model *)

MaxTrials == 2      \* options.nTrials ranges over 1..MaxTrials
MaxDup == 2         \* options.duplicates ranges over 1..MaxDup

MaxSnapshots == 3   \* getSnapshot is called at most MaxSnapshots times on a handler

-----------------------------------------------------------------------------
(* JavaScript values *)

Undefined == [t |-> "undefined"]
Null == [t |-> "null"]
Num(n) == [t |-> "number", v |-> n]
Arr(s) == [t |-> "array", v |-> s]
Str(s) == [t |-> "string", v |-> s]
Ref(i) == [t |-> "ref", ix |-> i]

IsArray(x) == x.t = "array"

Range(s) == {s[i] : i \in 1..Len(s)}

RECURSIVE SumSeq(_)
SumSeq(s) == IF s = <<>> THEN 0 ELSE Head(s) + SumSeq(Tail(s))

RECURSIVE Flatten(_)
Flatten(ss) == IF ss = <<>> THEN <<>> ELSE Head(ss) \o Flatten(Tail(ss))

Fill(n, x) == [i \in 1..n |-> x]

Min(a, b) == IF a < b THEN a ELSE b
Max(a, b) == IF a < b THEN b ELSE a

-----------------------------------------------------------------------------
(* The conditions a caller may pass.  A condition object is a record of    *)
(* the fields it holds (has) and their values; "x in condition" is         *)
(* x \in condition.has.                                                    *)

BaseFields == {"label", "startVal", "startValSd"}

Condition(label, startVal, has, nTrials) ==
    [t |-> "object", has |-> has, label |-> label, startVal |-> startVal,
     startValSd |-> 1, nTrials |-> nTrials, _duplicatedConditionCardinal |-> 0]

condA == Condition("A", 5, BaseFields, 0)
condAStop == Condition("A", 5, BaseFields \cup {"stopInterval"}, 0)
condB == Condition("B", 3, BaseFields, 0)
condB1 == Condition("B", 3, BaseFields \cup {"nTrials"}, 1)
condNoSd == Condition("A", 5, BaseFields \ {"startValSd"}, 0)
condNoStartVal == Condition("A", 5, BaseFields \ {"startVal"}, 0)
condNoLabel == Condition("A", 5, BaseFields \ {"label"}, 0)

\* the caller's duplication of every condition into d tagged copies, with
\* cardinals 1..d
Duplicated(cs, d) ==
    Flatten([i \in 1..Len(cs) |->
        [k \in 1..d |-> [cs[i] EXCEPT !.has = @ \cup {"_duplicatedConditionCardinal"},
                                      !._duplicatedConditionCardinal = k]]])

ValidLists == {<<condA>>, <<condA, condB1>>, <<condAStop, condB1>>, <<condB1, condB1>>}

DuplicatedLists == {<<condA>>, <<condB1>>}

InvalidLists == {<<>>, <<Str("conditions.csv")>>, <<condA, condNoStartVal>>,
                 <<condNoLabel>>, <<condA, condNoSd>>}

Methods == {"SEQUENTIAL", "RANDOM", "FULL_RANDOM"}

\* the seed is varied under the policy that reads the generator
Seeds(method) == IF method = "RANDOM" THEN {Undefined, Num(1), Num(2)} ELSE {Num(1)}

Options(m, st, c, n, s, d) ==
    [method |-> m, stairType |-> st, conditions |-> c, nTrials |-> n,
     randomSeed |-> s, duplicates |-> d, name |-> "trials", varName |-> "contrast"]

OptionSet ==
    {Options(m, st, c, n, Num(1), d) :
        m \in Methods, st \in {Undefined, Str("SIMPLE"), Str("QUEST")},
        c \in {Undefined, Str("conditions.csv")} \cup {Arr(l) : l \in InvalidLists}
              \cup {Arr(l) : l \in ValidLists},
        n \in 1..MaxTrials, d \in 1..MaxDup}
    \cup
    UNION {{Options(m, Str("QUEST"), c, n, s, d) :
               c \in {Arr(l) : l \in ValidLists}
                     \cup {Arr(Duplicated(l, d)) : l \in DuplicatedLists},
               n \in 1..MaxTrials, s \in Seeds(m)} : m \in Methods, d \in 1..MaxDup}

-----------------------------------------------------------------------------
(* The random source: seedrandom(seed) gives a deterministic stream of     *)
(* floats in [0,1) for a given seed and an independent one without a seed. *)
(* The stream is a linear congruential generator over 0..3, read as x/4.   *)

seedrandom(seed, entropy) == IF seed = Undefined THEN entropy ELSE seed.v % 4

RngNext(x) == (5 * x + 3) % 4

Entropy == {0, 3}

Swap(a, i, j) == [a EXCEPT ![i] = a[j], ![j] = a[i]]

\* util.shuffle(array, randomNumberGenerator): Fisher-Yates from the last
\* index down, j = floor(random() * (i + 1)); gives <<shuffled, generator>>
RECURSIVE ShuffleFrom(_, _, _)
ShuffleFrom(a, i, x) ==
    IF i < 2 THEN <<a, x>>
    ELSE LET x1 == RngNext(x)
             j == ((x1 * i) \div 4) + 1
         IN ShuffleFrom(Swap(a, i, j), i - 1, x1)

shuffle(array, rng) == ShuffleFrom(array, Len(array), rng)

Count(s, x) == Cardinality({i \in 1..Len(s) : s[i] = x})

\* util.shuffle(array) without a generator draws from Math.random: every
\* rearrangement of the array is a possible outcome
shuffleUnseeded(array) ==
    {p \in [1..Len(array) -> Range(array)] :
        \A x \in Range(array) : Count(p, x) = Count(array, x)}

\* util.repeatEveryElement(array, n): every element becomes n adjacent copies
repeatEveryElement(array, n) ==
    [i \in 1..(Len(array) * n) |-> array[((i - 1) \div n) + 1]]

-----------------------------------------------------------------------------
(* QuestHandler: the adaptive procedure of one condition.                  *)

UserAttributes ==
    <<"trialList", "extraInfo", "name", "autoLog", "varName", "startVal",
      "startValSd", "nTrials">>

QuestHandler(args) ==
    [_name |-> args.name,
     _nTrials |-> args.nTrials,
     _startVal |-> args.startVal,
     hasCardinal |-> args.hasCardinal,
     hasStopInterval |-> args.hasStopInterval,
     _duplicatedConditionCardinal |-> args._duplicatedConditionCardinal,
     finished |-> FALSE,          \* the procedure reports itself finished
     nResponses |-> 0,            \* the trials it has run
     questValue |-> args.startVal,
     _userAttributes |-> UserAttributes,
     attributes |-> [trialList |-> "[trialList]", extraInfo |-> "[extraInfo]",
                     name |-> args.name, autoLog |-> args.autoLog,
                     varName |-> args.varName, startVal |-> args.startVal,
                     startValSd |-> args.startValSd, nTrials |-> args.nTrials]]

getQuestValue(staircase) == staircase.questValue

\* one response r observed at intensity x moves the estimate q one step,
\* within startVal - 1 .. startVal + 1
QuestUpdate(staircase, q, x, r) ==
    IF r = 1 THEN Max(staircase._startVal - 1, Min(q, x) - 1)
    ELSE Min(staircase._startVal + 1, Max(q, x) + 1)

RECURSIVE QuestUpdateAll(_, _, _, _)
QuestUpdateAll(staircase, q, x, rs) ==
    IF rs = <<>> THEN q
    ELSE QuestUpdateAll(staircase, QuestUpdate(staircase, q, x, Head(rs)), x, Tail(rs))

Scalars(response) == IF IsArray(response) THEN response.v ELSE <<response.v>>

\* QuestHandler.addResponse(response, value, doAddData, doGiveToQuest); stop is
\* the outcome of the stopping criterion of a procedure that has a
\* stopInterval, on this response.
\* A finished procedure runs no further trial and gives no new estimate.
QuestAddResponse(staircase, response, value, doGiveToQuest, stop) ==
    LET x == IF value = Undefined THEN staircase.questValue ELSE value.v
        n == staircase.nResponses + 1
    IN IF staircase.finished THEN staircase
       ELSE [staircase EXCEPT
               !.questValue = IF doGiveToQuest
                              THEN QuestUpdateAll(staircase, @, x, Scalars(response))
                              ELSE @,
               !.nResponses = n,
               !.finished = (staircase.hasStopInterval /\ stop) \/ n >= staircase._nTrials]

\* the procedure finished before it had run its trial budget
FinishedEarly(staircase) == staircase.finished /\ staircase.nResponses < staircase._nTrials

-----------------------------------------------------------------------------
(* MultiStairHandler *)

Error(origin, context, error) == [origin |-> origin, context |-> context, error |-> error]

\* the fields set by the constructor before the staircases are prepared
MultiStairHandler(opts, entropy) ==
    [_name |-> opts.name,
     _trialList |-> Fill(opts.nTrials, Undefined),
     _snapshots |-> <<>>,
     _finished |-> FALSE,
     _multiMethod |-> opts.method,
     _varName |-> opts.varName,
     _stairType |-> IF opts.stairType = Undefined THEN Str("SIMPLE") ELSE opts.stairType,
     _conditions |-> IF opts.conditions = Undefined THEN Arr(<<Undefined>>)
                     ELSE opts.conditions,
     _nTrials |-> opts.nTrials,
     _autoLog |-> FALSE,
     _duplicates |-> opts.duplicates,
     _duplicatedTrialCardinal |-> 0,
     _randomNumberGenerator |-> seedrandom(opts.randomSeed, entropy),
     _staircases |-> <<>>,
     trialKey |-> <<>>,
     _currentPass |-> <<>>,
     _currentStaircase |-> Undefined]

\* a mutation of ConditionError: startValSd is not required
ConditionErrorWithoutSd(condition, stairType) ==
    IF condition.t # "object" THEN <<"one of the conditions is not an object">>
    ELSE IF "startVal" \notin condition.has
         THEN <<"each condition should include a startVal field">>
    ELSE IF "label" \notin condition.has
         THEN <<"each condition should include a label field">>
    ELSE <<>>

\* what the loop body of _validateConditions throws for one condition: <<>> or <<message>>
ConditionError(condition, stairType) ==
    IF condition.t # "object" THEN <<"one of the conditions is not an object">>
    ELSE IF "startVal" \notin condition.has
         THEN <<"each condition should include a startVal field">>
    ELSE IF "label" \notin condition.has
         THEN <<"each condition should include a label field">>
    ELSE IF stairType = Str("QUEST") /\ "startValSd" \notin condition.has
         THEN <<"QUEST conditions must include a startValSd field">>
    ELSE <<>>

\* a mutation of _validateConditions: the stair type is not looked at
_validateConditionsAnyStairType(self) ==
    LET wrap(msg) == <<Error("MultiStairHandler._validateConditions",
                             "when validating the conditions", Str(msg))>>
    IN IF ~IsArray(self._conditions) \/ Len(self._conditions.v) = 0
       THEN wrap("conditions should be a non empty array of objects")
       ELSE LET cs == self._conditions.v
                bad == {i \in 1..Len(cs) : ConditionError(cs[i], self._stairType) # <<>>}
            IN IF bad = {} THEN <<>>
               ELSE LET first == CHOOSE i \in bad : \A j \in bad : i <= j
                    IN wrap(ConditionError(cs[first], self._stairType)[1])

\* what _validateConditions throws: <<>> or <<error>>
_validateConditions(self) ==
    LET wrap(msg) == <<Error("MultiStairHandler._validateConditions",
                             "when validating the conditions", Str(msg))>>
    IN IF ~IsArray(self._conditions) \/ Len(self._conditions.v) = 0
       THEN wrap("conditions should be a non empty array of objects")
       ELSE IF self._stairType = Str("SIMPLE")
       THEN wrap("'simple' staircases are currently not supported")
       ELSE LET cs == self._conditions.v
                bad == {i \in 1..Len(cs) : ConditionError(cs[i], self._stairType) # <<>>}
            IN IF bad = {} THEN <<>>
               ELSE LET first == CHOOSE i \in bad : \A j \in bad : i <= j
                    IN wrap(ConditionError(cs[first], self._stairType)[1])

\* the arguments _prepareStaircases gives to the QuestHandler of one condition
QuestArgs(self, condition) ==
    [name |-> condition.label,
     varName |-> self._varName,
     autoLog |-> self._autoLog,
     startVal |-> condition.startVal,
     startValSd |-> condition.startValSd,
     nTrials |-> IF "nTrials" \notin condition.has THEN self._nTrials ELSE condition.nTrials,
     hasCardinal |-> "_duplicatedConditionCardinal" \in condition.has,
     hasStopInterval |-> "stopInterval" \in condition.has,
     _duplicatedConditionCardinal |-> condition._duplicatedConditionCardinal]

\* a mutation of TrialKeyPush: every condition puts its label on the key
TrialKeyPushEveryCondition(args) == Fill(args.nTrials, args.name)

\* the labels pushed on trialKey by one condition
TrialKeyPush(args) ==
    IF ~args.hasCardinal \/ args._duplicatedConditionCardinal = 1
    THEN Fill(args.nTrials, args.name)
    ELSE <<>>

\* trialKey as the loop of _prepareStaircases leaves it, before it is shuffled
TrialKeyBuilt(self) ==
    Flatten([i \in 1..Len(self._conditions.v) |->
                TrialKeyPush(QuestArgs(self, self._conditions.v[i]))])

\* a mutation of _prepareStaircases: the labels of the key are not repeated
_prepareStaircasesWithoutRepeat(self, shuffled) ==
    [self EXCEPT
        !._staircases = [i \in 1..Len(self._conditions.v) |->
                            QuestHandler(QuestArgs(self, self._conditions.v[i]))],
        !.trialKey = shuffled,
        !._currentPass = <<>>,
        !._currentStaircase = Null]

\* _prepareStaircases once the conditions are validated; shuffled is the
\* outcome of util.shuffle(this.trialKey)
_prepareStaircases(self, shuffled) ==
    [self EXCEPT
        !._staircases = [i \in 1..Len(self._conditions.v) |->
                            QuestHandler(QuestArgs(self, self._conditions.v[i]))],
        !.trialKey = repeatEveryElement(shuffled, self._duplicates),
        !._currentPass = <<>>,
        !._currentStaircase = Null]

-----------------------------------------------------------------------------
(* The trial-selection step *)

\* a mutation of Unfinished: the finished staircases stay in the pass
AllStaircases(self) == [i \in 1..Len(self._staircases) |-> Ref(i)]

\* a mutation of Unfinished: the unfinished staircases, last one first
UnfinishedReversed(self) ==
    LET pass == SelectSeq([i \in 1..Len(self._staircases) |-> Ref(i)],
                          LAMBDA r : ~self._staircases[r.ix].finished)
    IN [k \in 1..Len(pass) |-> pass[Len(pass) + 1 - k]]

\* a mutation of Unfinished: only the first unfinished staircase is in the pass
UnfinishedFirstOnly(self) ==
    LET pass == SelectSeq([i \in 1..Len(self._staircases) |-> Ref(i)],
                          LAMBDA r : ~self._staircases[r.ix].finished)
    IN IF pass = <<>> THEN <<>> ELSE <<Head(pass)>>

Unfinished(self) ==
    SelectSeq([i \in 1..Len(self._staircases) |-> Ref(i)],
              LAMBDA r : ~self._staircases[r.ix].finished)

\* a mutation of PickHandler: when the key gave no label, the first
\* unfinished staircase is picked
PickHandlerOrUnfinished(self, name, cardinal) ==
    LET tagged == \A i \in 1..Len(self._staircases) : self._staircases[i].hasCardinal
        matches == {i \in 1..Len(self._staircases) :
                       IF name = <<>> THEN ~self._staircases[i].finished
                       ELSE /\ self._staircases[i]._name = name[1]
                            /\ tagged =>
                                 self._staircases[i]._duplicatedConditionCardinal = cardinal}
    IN IF matches = {} THEN Undefined
       ELSE Ref(CHOOSE i \in matches : \A j \in matches : i <= j)

\* the handler FULL_RANDOM picks for a condition name and duplication cardinal
\* (name is <<>> when trialKey.shift() gave undefined)
PickHandler(self, name, cardinal) ==
    LET tagged == \A i \in 1..Len(self._staircases) : self._staircases[i].hasCardinal
        matches == {i \in 1..Len(self._staircases) :
                       /\ name # <<>>
                       /\ self._staircases[i]._name = name[1]
                       /\ tagged =>
                            self._staircases[i]._duplicatedConditionCardinal = cardinal}
    IN IF matches = {} THEN Undefined
       ELSE Ref(CHOOSE i \in matches : \A j \in matches : i <= j)

\* a mutation of NextCardinal: the cardinal counts from 0
NextCardinalFromZero(self) == (self._duplicatedTrialCardinal + 1) % self._duplicates

\* a mutation of NextCardinal: the cardinal does not wrap
NextCardinalUnwrapped(self) == self._duplicatedTrialCardinal + 1

\* the duplication cardinal of the next FULL_RANDOM selection (line 307)
NextCardinal(self) == (self._duplicatedTrialCardinal % self._duplicates) + 1

\* a mutation of NewPass: the FULL_RANDOM step draws from the seeded generator
NewPassDrawing(self) ==
    LET pass == Unfinished(self)
    IN CASE self._multiMethod = "SEQUENTIAL" ->
                [self EXCEPT !._currentPass = pass]
         [] self._multiMethod = "RANDOM" ->
                LET sh == shuffle(pass, self._randomNumberGenerator)
                IN [self EXCEPT !._currentPass = sh[1], !._randomNumberGenerator = sh[2]]
         [] self._multiMethod = "FULL_RANDOM" ->
                IF Len(pass) > 0
                THEN LET cardinal == NextCardinal(self)
                         name == IF self.trialKey = <<>> THEN <<>>
                                 ELSE <<Head(self.trialKey)>>
                     IN [self EXCEPT
                           !._duplicatedTrialCardinal = cardinal,
                           !.trialKey = IF @ = <<>> THEN <<>> ELSE Tail(@),
                           !._randomNumberGenerator = RngNext(@),
                           !._currentPass = <<PickHandler(self, name, cardinal)>>]
                ELSE [self EXCEPT !._currentPass = pass]
         [] OTHER -> [self EXCEPT !._currentPass = pass]

\* "if the current pass is empty, get a new one"
NewPass(self) ==
    LET pass == Unfinished(self)
    IN CASE self._multiMethod = "SEQUENTIAL" ->
                [self EXCEPT !._currentPass = pass]
         [] self._multiMethod = "RANDOM" ->
                LET sh == shuffle(pass, self._randomNumberGenerator)
                IN [self EXCEPT !._currentPass = sh[1], !._randomNumberGenerator = sh[2]]
         [] self._multiMethod = "FULL_RANDOM" ->
                IF Len(pass) > 0
                THEN LET cardinal == NextCardinal(self)
                         name == IF self.trialKey = <<>> THEN <<>>
                                 ELSE <<Head(self.trialKey)>>
                     IN [self EXCEPT
                           !._duplicatedTrialCardinal = cardinal,
                           !.trialKey = IF @ = <<>> THEN <<>> ELSE Tail(@),
                           !._currentPass = <<PickHandler(self, name, cardinal)>>]
                ELSE [self EXCEPT !._currentPass = pass]
         [] OTHER -> [self EXCEPT !._currentPass = pass]

\* "pick the next staircase in the pass"
PickNext(self) ==
    IF self._currentPass = <<>>
    THEN [self EXCEPT !._currentStaircase = Undefined]
    ELSE [self EXCEPT !._currentStaircase = Head(self._currentPass),
                      !._currentPass = Tail(self._currentPass)]

\* termination: the handler is finished and so is the snapshot of the last
\* defined trial
Terminate(self) ==
    LET hits == {t \in 1..(Len(self._snapshots) - 1) :
                    t + 1 > Len(self._trialList) \/ self._trialList[t + 1] = Undefined}
    IN IF hits = {} THEN [self EXCEPT !._finished = TRUE]
       ELSE LET t == CHOOSE x \in hits : \A y \in hits : x <= y
            IN [self EXCEPT !._finished = TRUE, !._snapshots[t].finished = TRUE]

Put(obj, key, value) ==
    [k \in DOMAIN obj \cup {key} |-> IF k = key THEN value ELSE obj[k]]

\* a mutation of AttributeFields: the label is written under the key of "name"
RECURSIVE AttributeFieldsUnderName(_, _, _)
AttributeFieldsUnderName(self, staircase, attributes) ==
    IF attributes = <<>> THEN <<>>
    ELSE LET attribute == Head(attributes)
             rest == AttributeFieldsUnderName(self, staircase, Tail(attributes))
         IN IF attribute # "trialList" /\ attribute # "extraInfo"
            THEN <<<<self._name \o "." \o attribute, staircase.attributes[attribute]>>>>
                 \o rest
            ELSE rest

\* the <<field name, value>> pairs written for the attributes of a staircase
RECURSIVE AttributeFields(_, _, _)
AttributeFields(self, staircase, attributes) ==
    IF attributes = <<>> THEN <<>>
    ELSE LET attribute == Head(attributes)
             rest == AttributeFields(self, staircase, Tail(attributes))
         IN IF attribute = "name"
            THEN <<<<self._name \o ".label", staircase._name>>>> \o rest
            ELSE IF attribute # "trialList" /\ attribute # "extraInfo"
            THEN <<<<self._name \o "." \o attribute, staircase.attributes[attribute]>>>>
                 \o rest
            ELSE rest

\* the fields written for the selected staircase, in the order of the writes
TrialFields(self, staircase, value) ==
    <<<<self._name \o "." \o self._varName, value>>,
      <<self._name \o ".intensity", value>>>>
    \o AttributeFields(self, staircase, staircase._userAttributes)

RECURSIVE PutAll(_, _)
PutAll(obj, fields) ==
    IF fields = <<>> THEN obj
    ELSE PutAll(Put(obj, Head(fields)[1], Head(fields)[2]), Tail(fields))

EmptyObject == [k \in {} |-> Undefined]

\* a mutation of NextUndefinedTrial: the last undefined slot is written
LastUndefinedTrial(self) ==
    LET free == {t \in 1..Len(self._trialList) : self._trialList[t] = Undefined}
    IN IF free = {} THEN 0 ELSE CHOOSE t \in free : \A u \in free : t >= u

\* the index of the slot the selection step writes, 0 when every slot is defined
NextUndefinedTrial(self) ==
    LET free == {t \in 1..Len(self._trialList) : self._trialList[t] = Undefined}
    IN IF free = {} THEN 0 ELSE CHOOSE t \in free : \A u \in free : t <= u

\* a mutation of UpdateTrialList: the snapshot of the slot is not written
UpdateTrialListOnly(self) ==
    LET staircase == self._staircases[self._currentStaircase.ix]
        fields == TrialFields(self, staircase, getQuestValue(staircase))
        t == NextUndefinedTrial(self)
    IN IF t = 0 THEN self
       ELSE [self EXCEPT !._trialList[t] = PutAll(EmptyObject, fields)]

\* a mutation of UpdateTrialList: the handler is finished as soon as the last
\* slot of the trial list is written
UpdateTrialListUntilFull(self) ==
    LET staircase == self._staircases[self._currentStaircase.ix]
        fields == TrialFields(self, staircase, getQuestValue(staircase))
        t == NextUndefinedTrial(self)
    IN IF t = 0 THEN self
       ELSE [self EXCEPT !._trialList[t] = PutAll(EmptyObject, fields),
                         !._finished = (t = Len(self._trialList))]

\* a mutation of UpdateTrialList: when no slot is undefined the trial list
\* gets one more slot
UpdateTrialListGrowing(self) ==
    LET staircase == self._staircases[self._currentStaircase.ix]
        fields == TrialFields(self, staircase, getQuestValue(staircase))
        t == NextUndefinedTrial(self)
    IN IF t = 0
       THEN [self EXCEPT !._trialList = Append(@, PutAll(EmptyObject, fields))]
       ELSE LET written == [self EXCEPT !._trialList[t] = PutAll(EmptyObject, fields)]
            IN IF t <= Len(self._snapshots)
               THEN [written EXCEPT
                       !._snapshots[t].fields = PutAll(@, fields),
                       !._snapshots[t].trialAttributes =
                           @ \o [i \in 1..Len(fields) |-> fields[i][1]]]
               ELSE written

\* "update the next undefined trial in the trial list, and the associated snapshot"
UpdateTrialList(self) ==
    LET staircase == self._staircases[self._currentStaircase.ix]
        value == getQuestValue(staircase)
        fields == TrialFields(self, staircase, value)
        t == NextUndefinedTrial(self)
    IN IF t = 0 THEN self
       ELSE LET written == [self EXCEPT !._trialList[t] = PutAll(EmptyObject, fields)]
            IN IF t <= Len(self._snapshots)
               THEN [written EXCEPT
                       !._snapshots[t].fields = PutAll(@, fields),
                       !._snapshots[t].trialAttributes =
                           @ \o [i \in 1..Len(fields) |-> fields[i][1]]]
               ELSE written

\* a mutation of _nextTrial: a new pass is made at every step
_nextTrialNewPass(self) ==
    LET picked == PickNext(NewPass(self))
    IN IF picked._currentStaircase = Undefined
       THEN Terminate(picked)
       ELSE UpdateTrialList(picked)

_nextTrial(self) ==
    LET passed == IF Len(self._currentPass) = 0 THEN NewPass(self) ELSE self
        picked == PickNext(passed)
    IN IF picked._currentStaircase = Undefined
       THEN Terminate(picked)
       ELSE UpdateTrialList(picked)

-----------------------------------------------------------------------------
(* addResponse *)

\* a mutation of ResponseRejected: the elements of an array are not checked
ResponseRejectedUnlessArray(response) ==
    /\ response # Num(0)
    /\ response # Num(1)
    /\ ~IsArray(response)

\* a mutation of ResponseRejected: an array without elements is rejected too
ResponseRejectedOrEmpty(response) ==
    /\ response # Num(0)
    /\ response # Num(1)
    /\ ~(/\ IsArray(response)
         /\ Len(response.v) > 0
         /\ \A i \in 1..Len(response.v) : response.v[i] \in {0, 1})

\* the test of line 116: the response is neither 0, nor 1, nor an array of 0s and 1s
ResponseRejected(response) ==
    /\ response # Num(0)
    /\ response # Num(1)
    /\ ~(IsArray(response) /\ \A i \in 1..Len(response.v) : response.v[i] \in {0, 1})

\* the experiment.addData calls of lines 125-129
AddData(self, response) ==
    [i \in 1..Len(Scalars(response)) |->
        [key |-> self._name \o ".response", value |-> Scalars(response)[i]]]

\* the steps of addResponse, in the order of the statements: the addData calls
\* (lines 125-129), the call on the current staircase (134), _nextTrial (143)
AddDataEvents(self, response) ==
    [i \in 1..Len(Scalars(response)) |->
        [op |-> "addData", key |-> self._name \o ".response",
         value |-> Scalars(response)[i]]]

StaircaseEvent(self) ==
    [op |-> "staircase.addResponse", staircase |-> self._currentStaircase.ix]

NextTrialEvent == [op |-> "_nextTrial"]

\* a mutation of RejectResponse: the response is recorded before it is checked
RejectResponseAfterRecording(self, response) ==
    [self |-> self,
     thrown |-> <<Error("MultiStairHandler.addResponse", "when adding a trial response",
                        [t |-> "string",
                         v |-> "the response must be either 0 or 1, got: ",
                         got |-> response])>>,
     addData |-> AddData(self, response),
     forwarded |-> <<>>,
     events |-> AddDataEvents(self, response)]

\* the outcome of addResponse for a rejected response (lines 116-123)
RejectResponse(self, response) ==
    [self |-> self,
     thrown |-> <<Error("MultiStairHandler.addResponse", "when adding a trial response",
                        [t |-> "string",
                         v |-> "the response must be either 0 or 1, got: ",
                         got |-> response])>>,
     addData |-> <<>>,
     forwarded |-> <<>>,
     events |-> <<>>]

\* a mutation of RecordResponse: without the test of _finished the call goes to
\* the current staircase, which is undefined
RecordResponseUnguarded(self, response) ==
    [self |-> self,
     thrown |-> <<Error("MultiStairHandler.addResponse", "when adding a trial response",
                        Str("TypeError: this._currentStaircase is undefined"))>>,
     addData |-> AddData(self, response),
     forwarded |-> <<>>,
     events |-> AddDataEvents(self, response)]

\* a mutation of RecordResponse: a response given to a finished handler
\* starts it again on its first staircase
RecordResponseRestarting(self, response) ==
    [self |-> [self EXCEPT !._finished = FALSE, !._currentStaircase = Ref(1)],
     thrown |-> <<>>,
     addData |-> AddData(self, response),
     forwarded |-> <<>>,
     events |-> AddDataEvents(self, response)]

\* the outcome of addResponse on a finished handler (lines 125-131)
RecordResponse(self, response) ==
    [self |-> self,
     thrown |-> <<>>,
     addData |-> AddData(self, response),
     forwarded |-> <<>>,
     events |-> AddDataEvents(self, response)]

\* a mutation of Forward: the response goes to the first staircase
ForwardToFirst(self, response, value, doGiveToQuest, stop) ==
    [self EXCEPT !._staircases[1] =
        QuestAddResponse(@, response, value, doGiveToQuest, stop)]

\* the current staircase after this._currentStaircase.addResponse (line 134)
Forward(self, response, value, doGiveToQuest, stop) ==
    [self EXCEPT !._staircases[self._currentStaircase.ix] =
        QuestAddResponse(@, response, value, doGiveToQuest, stop)]

ForwardedCall(self, response, value, doGiveToQuest) ==
    [staircase |-> self._currentStaircase.ix, response |-> response, value |-> value,
     doAddData |-> FALSE, doGiveToQuest |-> doGiveToQuest]

\* a mutation of UpdateAndSelect: the response is recorded after the staircase
\* is updated and the next trial selected
UpdateSelectThenRecord(self, response, value, doGiveToQuest, stop) ==
    [self |-> _nextTrial(Forward(self, response, value, doGiveToQuest, stop)),
     thrown |-> <<>>,
     addData |-> AddData(self, response),
     forwarded |-> <<ForwardedCall(self, response, value, doGiveToQuest)>>,
     events |-> <<StaircaseEvent(self), NextTrialEvent>>
                \o AddDataEvents(self, response)]

\* a mutation of UpdateAndSelect: a trial that is not given to QUEST is not
\* followed by a selection step
UpdateWithoutSelect(self, response, value, doGiveToQuest, stop) ==
    LET updated == Forward(self, response, value, doGiveToQuest, stop)
    IN [self |-> IF doGiveToQuest THEN _nextTrial(updated) ELSE updated,
        thrown |-> <<>>,
        addData |-> AddData(self, response),
        forwarded |-> <<ForwardedCall(self, response, value, doGiveToQuest)>>,
        events |-> AddDataEvents(self, response) \o <<StaircaseEvent(self)>>
                   \o IF doGiveToQuest THEN <<NextTrialEvent>> ELSE <<>>]

\* the outcome of addResponse for a valid response on an unfinished handler
\* (lines 125-144)
UpdateAndSelect(self, response, value, doGiveToQuest, stop) ==
    [self |-> _nextTrial(Forward(self, response, value, doGiveToQuest, stop)),
     thrown |-> <<>>,
     addData |-> AddData(self, response),
     forwarded |-> <<ForwardedCall(self, response, value, doGiveToQuest)>>,
     events |-> AddDataEvents(self, response)
                \o <<StaircaseEvent(self), NextTrialEvent>>]

\* addResponse(response, value, doGiveToQuest) on handler self: the handler it
\* leaves, what it throws, and the calls it makes on the experiment and on
\* the staircases
addResponse(self, response, value, doGiveToQuest, stop) ==
    IF ResponseRejected(response) THEN RejectResponse(self, response)
    ELSE IF ~self._finished
    THEN UpdateAndSelect(self, response, value, doGiveToQuest, stop)
    ELSE RecordResponse(self, response)

-----------------------------------------------------------------------------
(* The state machine *)

Arg(response, value, doGiveToQuest) ==
    [response |-> response, value |-> value, doGiveToQuest |-> doGiveToQuest]

\* the argument lists addResponse is called with
Arguments ==
    {Arg(Num(0), Undefined, TRUE), Arg(Num(1), Undefined, TRUE),
     Arg(Num(1), Num(7), FALSE), Arg(Arr(<<1, 0, 1>>), Undefined, TRUE),
     Arg(Arr(<<>>), Undefined, TRUE),
     Arg(Num(2), Undefined, TRUE), Arg(Num(-1), Undefined, TRUE),
     Arg(Arr(<<0, 1, 2>>), Undefined, TRUE)}

NoCall == [op |-> "none"]

\* no GUI object is in use
NoGUI == [stage |-> "none"]

Init ==
    /\ options \in OptionSet
    /\ phase = "new"
    /\ mh = Null
    /\ twin = Null
    /\ call = NoCall
    /\ thrown = <<>>
    /\ addDataCalls = <<>>
    /\ forwarded = <<>>
    /\ selections = <<>>
    /\ events = <<>>
    /\ gui = NoGUI

\* the entry the selection step adds to the record of picks
Picked(self) ==
    IF self._currentStaircase.t = "ref"
    THEN <<[staircase |-> self._currentStaircase.ix,
            cardinal |-> self._duplicatedTrialCardinal]>>
    ELSE <<>>

EntropyOf(opts) == IF opts.randomSeed = Undefined THEN Entropy ELSE {0}

\* a mutation of Constructed: the constructor does not select a first trial
ConstructedWithoutNextTrial(opts) ==
    UNION {LET self == MultiStairHandler(opts, e)
           IN IF _validateConditions(self) # <<>> THEN {}
              ELSE {_prepareStaircases(self, k) :
                       k \in shuffleUnseeded(TrialKeyBuilt(self))} : e \in EntropyOf(opts)}

\* new MultiStairHandler(options): the handlers it may build (none when the
\* conditions are rejected)
Constructed(opts) ==
    UNION {LET self == MultiStairHandler(opts, e)
           IN IF _validateConditions(self) # <<>> THEN {}
              ELSE {_nextTrial(_prepareStaircases(self, k)) :
                       k \in shuffleUnseeded(TrialKeyBuilt(self))} : e \in EntropyOf(opts)}

ConstructorThrows(opts) ==
    LET v == _validateConditions(MultiStairHandler(opts, 0))
    IN IF v = <<>> THEN <<>>
       ELSE <<Error("MultiStairHandler._prepareStaircases",
                    "when preparing the staircases", v[1])>>

ConstructStep ==
    /\ phase = "new"
    /\ call' = [op |-> "constructor"]
    /\ thrown' = ConstructorThrows(options)
    /\ IF thrown' # <<>>
       THEN /\ phase' = "failed" /\ mh' = mh /\ selections' = selections
            /\ events' = <<[op |-> "_prepareStaircases"]>>
       ELSE /\ phase' = "ready"
            /\ mh' \in Constructed(options)
            /\ selections' = Picked(mh')
            /\ events' = <<[op |-> "_prepareStaircases"], NextTrialEvent>>
    /\ UNCHANGED <<options, addDataCalls, forwarded, gui>>

AddResponseStep(response, value, doGiveToQuest, stop) ==
    /\ phase = "ready"
    /\ LET r == addResponse(mh, response, value, doGiveToQuest, stop)
       IN /\ mh' = r.self
          /\ thrown' = r.thrown
          /\ addDataCalls' = r.addData
          /\ forwarded' = r.forwarded
          /\ events' = r.events
          /\ selections' = IF r.forwarded = <<>> THEN selections
                           ELSE selections \o Picked(r.self)
    /\ call' = [op |-> "addResponse", response |-> response, value |-> value,
                doGiveToQuest |-> doGiveToQuest]
    /\ UNCHANGED <<options, phase, gui>>

\* the outcomes of the stopping criterion of the current staircase
StopOutcomes(self) ==
    IF /\ self._currentStaircase.t = "ref"
       /\ self._staircases[self._currentStaircase.ix].hasStopInterval
       /\ ~self._staircases[self._currentStaircase.ix].finished
    THEN BOOLEAN ELSE {FALSE}

Construct == ConstructStep /\ UNCHANGED twin

AddResponse ==
    /\ phase = "ready"
    /\ \E a \in Arguments, stop \in StopOutcomes(mh) :
          AddResponseStep(a.response, a.value, a.doGiveToQuest, stop) /\ UNCHANGED twin

Next == Construct \/ AddResponse

Spec == Init /\ [][Next]_vars

-----------------------------------------------------------------------------
(* Two handlers built from the same options and given the same responses *)

ConstructPair ==
    /\ ConstructStep
    /\ twin' \in IF thrown' # <<>> THEN {Null} ELSE Constructed(options)

AddResponsePair ==
    /\ phase = "ready"
    /\ \E a \in Arguments, stop \in StopOutcomes(mh) :
          /\ AddResponseStep(a.response, a.value, a.doGiveToQuest, stop)
          /\ twin' = addResponse(twin, a.response, a.value, a.doGiveToQuest, stop).self

NextPair == ConstructPair \/ AddResponsePair

SpecPair == Init /\ [][NextPair]_vars

-----------------------------------------------------------------------------
(* Handlers under FULL_RANDOM with one more duplicate than MaxDup *)

CycleDup == MaxDup + 1

CycleLists ==
    {<<condA, condB1>>, <<condAStop, condB1>>}
    \cup {Duplicated(l, CycleDup) : l \in {<<condB1>>, <<condA, condB1>>}}

\* every condition has a budget of one trial
CycleOptionSet ==
    {Options("FULL_RANDOM", Str("QUEST"), Arr(l), 1, Num(1), CycleDup) : l \in CycleLists}

InitCycle ==
    /\ options \in CycleOptionSet
    /\ phase = "new"
    /\ mh = Null
    /\ twin = Null
    /\ call = NoCall
    /\ thrown = <<>>
    /\ addDataCalls = <<>>
    /\ forwarded = <<>>
    /\ selections = <<>>
    /\ events = <<>>
    /\ gui = NoGUI

SpecCycle == InitCycle /\ [][Next]_vars

-----------------------------------------------------------------------------
(* Handlers under SEQUENTIAL and RANDOM that run several passes: two        *)
(* conditions and one more trial than MaxTrials                            *)

FairLists == {<<condA, condB>>, <<condAStop, condB>>, <<condA, condB1>>}

FairOptionSet ==
    UNION {{Options(m, Str("QUEST"), Arr(l), MaxTrials + 1, s, 1) :
               l \in FairLists, s \in Seeds(m)} : m \in {"SEQUENTIAL", "RANDOM"}}

\* the order of selection does not depend on the value of a valid response
FairArguments ==
    {Arg(Num(0), Undefined, TRUE), Arg(Num(1), Undefined, TRUE)}

InitFair ==
    /\ options \in FairOptionSet
    /\ phase = "new"
    /\ mh = Null
    /\ twin = Null
    /\ call = NoCall
    /\ thrown = <<>>
    /\ addDataCalls = <<>>
    /\ forwarded = <<>>
    /\ selections = <<>>
    /\ events = <<>>
    /\ gui = NoGUI

AddResponseFair ==
    /\ phase = "ready"
    /\ \E a \in FairArguments, stop \in StopOutcomes(mh) :
          AddResponseStep(a.response, a.value, a.doGiveToQuest, stop) /\ UNCHANGED twin

NextFair == Construct \/ AddResponseFair

SpecFair == InitFair /\ [][NextFair]_vars

-----------------------------------------------------------------------------
(* Handlers whose snapshots are taken.  getSnapshot is inherited from       *)
(* TrialHandler: it makes a record of the state of the handler, with the    *)
(* finished flag as it is then and no trial attribute yet, and appends it   *)
(* to _snapshots.                                                           *)

getSnapshot(self) ==
    [self EXCEPT !._snapshots =
        Append(@, [finished |-> self._finished,
                   fields |-> EmptyObject,
                   trialAttributes |-> <<>>])]

SnapLists == {<<condA>>, <<condA, condB1>>}

SnapOptionSet ==
    {Options(m, Str("QUEST"), Arr(l), n, Num(1), d) :
        m \in {"SEQUENTIAL", "FULL_RANDOM"}, l \in SnapLists, n \in 1..MaxTrials,
        d \in {1, MaxDup}}

InitSnap ==
    /\ options \in SnapOptionSet
    /\ phase = "new"
    /\ mh = Null
    /\ twin = Null
    /\ call = NoCall
    /\ thrown = <<>>
    /\ addDataCalls = <<>>
    /\ forwarded = <<>>
    /\ selections = <<>>
    /\ events = <<>>
    /\ gui = NoGUI

GetSnapshot ==
    /\ phase = "ready"
    /\ Len(mh._snapshots) < MaxSnapshots
    /\ mh' = getSnapshot(mh)
    /\ call' = [op |-> "getSnapshot"]
    /\ thrown' = <<>>
    /\ addDataCalls' = <<>>
    /\ forwarded' = <<>>
    /\ events' = <<>>
    /\ UNCHANGED <<options, phase, twin, selections, gui>>

NextSnap == Construct \/ AddResponse \/ GetSnapshot

SpecSnap == InitSnap /\ [][NextSnap]_vars

-----------------------------------------------------------------------------
(* Handlers whose staircases may throw.  addResponse calls the current      *)
(* staircase at line 134, outside any try block, and _nextTrial calls       *)
(* getQuestValue of the staircase it has picked at line 349, inside the try *)
(* block of lines 283-412.                                                 *)

\* what a staircase may throw: an error object of its own, or a TypeError
StaircaseErrors ==
    {Error("QuestHandler", "when updating the staircase", Str("invalid state")),
     Str("TypeError")}

FaultSites == {"staircase.addResponse", "getQuestValue"}

\* addResponse when this._currentStaircase.addResponse throws e (line 134):
\* the error is not caught and the statements after it do not run
StaircaseThrows(self, response, value, doGiveToQuest, e) ==
    [self |-> self,
     thrown |-> <<e>>,
     addData |-> AddData(self, response),
     forwarded |-> <<ForwardedCall(self, response, value, doGiveToQuest)>>,
     events |-> AddDataEvents(self, response) \o <<StaircaseEvent(self)>>]

\* _nextTrial when getQuestValue throws e (line 349): the catch of lines
\* 413-420 throws it again with the origin of _nextTrial; a step that
\* finishes the handler returns at line 341, before the call
_nextTrialThrows(self, e) ==
    LET passed == IF Len(self._currentPass) = 0 THEN NewPass(self) ELSE self
        picked == PickNext(passed)
    IN IF picked._currentStaircase = Undefined
       THEN [self |-> Terminate(picked), thrown |-> <<>>]
       ELSE [self |-> picked,
             thrown |-> <<Error("MultiStairHandler._nextTrial",
                                "when moving onto the next trial", e)>>]

\* addResponse when getQuestValue throws e in the selection step
SelectionThrows(self, response, value, doGiveToQuest, stop, e) ==
    LET step == _nextTrialThrows(Forward(self, response, value, doGiveToQuest, stop), e)
    IN [self |-> step.self,
        thrown |-> step.thrown,
        addData |-> AddData(self, response),
        forwarded |-> <<ForwardedCall(self, response, value, doGiveToQuest)>>,
        events |-> AddDataEvents(self, response)
                   \o <<StaircaseEvent(self), NextTrialEvent>>]

\* addResponse(response, value, doGiveToQuest) when the staircase throws e at site
addResponseThrowing(self, response, value, doGiveToQuest, stop, site, e) ==
    IF ResponseRejected(response) THEN RejectResponse(self, response)
    ELSE IF ~self._finished
    THEN IF site = "staircase.addResponse"
         THEN StaircaseThrows(self, response, value, doGiveToQuest, e)
         ELSE SelectionThrows(self, response, value, doGiveToQuest, stop, e)
    ELSE RecordResponse(self, response)

FaultOptionSet ==
    {Options(m, Str("QUEST"), Arr(l), n, Num(1), 1) :
        m \in Methods, l \in {<<condA, condB1>>}, n \in 1..MaxTrials}

InitFault ==
    /\ options \in FaultOptionSet
    /\ phase = "new"
    /\ mh = Null
    /\ twin = Null
    /\ call = NoCall
    /\ thrown = <<>>
    /\ addDataCalls = <<>>
    /\ forwarded = <<>>
    /\ selections = <<>>
    /\ events = <<>>
    /\ gui = NoGUI

AddResponseThrowing ==
    /\ phase = "ready"
    /\ \E a \in Arguments, stop \in StopOutcomes(mh), site \in FaultSites,
          e \in StaircaseErrors :
          LET r == addResponseThrowing(mh, a.response, a.value, a.doGiveToQuest,
                                       stop, site, e)
          IN /\ mh' = r.self
             /\ thrown' = r.thrown
             /\ addDataCalls' = r.addData
             /\ forwarded' = r.forwarded
             /\ events' = r.events
             /\ selections' = IF NextTrialEvent \in Range(r.events)
                              THEN selections \o Picked(r.self)
                              ELSE selections
             /\ call' = [op |-> "addResponse", response |-> a.response,
                         value |-> a.value, doGiveToQuest |-> a.doGiveToQuest]
    /\ UNCHANGED <<options, phase, twin, gui>>

NextFault == Construct \/ AddResponse \/ AddResponseThrowing

SpecFault == InitFault /\ [][NextFault]_vars

-----------------------------------------------------------------------------
(* GUI.DlgFromDict (src/src/core/GUI.js): the dialog box that asks the      *)
(* participant for the values of a dictionary.  A dictionary is the        *)
(* sequence of its entries in key order; the form input of entry i has id  *)
(* "form-input-" + (i - 1) and is named here by i.                         *)

Entry(key, value) == [key |-> key, value |-> value]

Dictionaries ==
    {<<Entry("participant", Str("")), Entry("session", Str("01"))>>,
     <<Entry("participant*", Str("p1")), Entry("condition", Arr(<<"a", "b">>))>>,
     <<Entry("group*", Arr(<<"x", "y">>)), Entry("Session", Str("01"))>>}

\* util.getUrlParameters(): the keys given in the URL
UrlParameters == {{}, {" session"}}

\* key.trim().toLowerCase() on the keys in use
Cleaned(key) ==
    CASE key = " session" -> "session"
      [] key = "Session" -> "session"
      [] OTHER -> key

Environments == {"LOCAL", "SERVER"}

Messages == {"DOWNLOADING_RESOURCES", "DOWNLOADING_RESOURCE", "RESOURCE_DOWNLOADED",
             "DOWNLOAD_COMPLETED"}

\* key.slice(-1) === "*" on the keys in use
IsRequired(key) == key \in {"participant*", "group*"}

\* the GUI object after its constructor: it listens to the resource events
GUI(environment, infoFromUrl) ==
    [stage |-> "constructed",
     environment |-> environment,
     infoFromUrl |-> infoFromUrl,
     _allResourcesDownloaded |-> Undefined,
     _requiredKeys |-> Undefined,
     _setRequiredKeys |-> Undefined,
     _dialogComponent |-> Undefined,
     dictionary |-> <<>>,       \* the caller's dictionary object
     passed |-> <<>>,           \* its entries when it was passed to DlgFromDict
     dialog |-> "none",         \* #expDialog: "none", "open" or "removed"
     inputs |-> <<>>,           \* the value of each form input, Undefined without input
     edited |-> FALSE,          \* the participant has changed a form input
     completed |-> FALSE,       \* DOWNLOAD_COMPLETED has been received
     okDisabled |-> FALSE,      \* the disabled option of #buttonOk
     returned |-> "none",       \* what the scheduled function returned last
     last |-> "constructor"]    \* the most recent event

\* DlgFromDict({dictionary, ...}) up to the return of the scheduled function
\* (lines 81-96)
DlgFromDict(g, dictionary) ==
    [g EXCEPT !.stage = "scheduled",
              !._allResourcesDownloaded = FALSE,
              !._requiredKeys = <<>>,
              !._setRequiredKeys = [t |-> "map", keys |-> {}],
              !._dialogComponent = [status |-> "NOT_STARTED", button |-> Undefined],
              !.dictionary = dictionary,
              !.passed = dictionary,
              !.last = "DlgFromDict"]

\* "only create an input if the key is not in the URL"
InUrl(g, key) == \E urlKey \in g.infoFromUrl : Cleaned(urlKey) = Cleaned(key)

\* the value a form input shows when it is created: the empty option of a
\* required select, else the first option of a select, else the value as text
InitialInput(entry) ==
    IF IsArray(entry.value)
    THEN IF IsRequired(entry.key) THEN "..."
         ELSE IF entry.value.v = <<>> THEN "" ELSE entry.value.v[1]
    ELSE entry.value.v

\* _updateOkButtonStatus: the disabled option of #buttonOk, when there is one
_updateOkButtonStatus(g) ==
    IF g.dialog # "open" THEN g
    ELSE [g EXCEPT !.okDisabled =
            ~(\/ g.environment = "LOCAL"
              \/ /\ g._allResourcesDownloaded = TRUE
                 /\ g._setRequiredKeys.t = "map"
                 /\ Cardinality(g._setRequiredKeys.keys) >= Len(g._requiredKeys))]

\* the first call of the scheduled function: the dialog box is built and opened
\* (lines 100-295)
OpenDialog(g) ==
    LET shown == {i \in 1..Len(g.dictionary) : ~InUrl(g, g.dictionary[i].key)}
        required == SelectSeq([i \in 1..Len(g.dictionary) |-> i],
                              LAMBDA i : i \in shown /\ IsRequired(g.dictionary[i].key))
    IN _updateOkButtonStatus(
         [g EXCEPT !._dialogComponent = [status |-> "STARTED", button |-> Str("Cancel")],
                   !._requiredKeys = required,
                   !.inputs = [i \in 1..Len(g.dictionary) |->
                                 IF i \in shown THEN Str(InitialInput(g.dictionary[i]))
                                 ELSE Undefined],
                   !.dialog = "open",
                   !.okDisabled = FALSE])

\* a mutation of Scheduled: the function returns NEXT as soon as the dialog
\* box has been opened by an earlier call
ScheduledUntilStarted(g) ==
    LET started == IF g._dialogComponent.status = "NOT_STARTED" THEN OpenDialog(g) ELSE g
    IN [started EXCEPT !.returned = IF g._dialogComponent.status # "NOT_STARTED"
                                    THEN "NEXT" ELSE "FLIP_REPEAT",
                       !.last = "scheduled"]

\* the scheduled function (lines 96-305)
Scheduled(g) ==
    LET started == IF g._dialogComponent.status = "NOT_STARTED" THEN OpenDialog(g) ELSE g
    IN [started EXCEPT !.returned = IF started._dialogComponent.status = "FINISHED"
                                    THEN "NEXT" ELSE "FLIP_REPEAT",
                       !.last = "scheduled"]

\* the close callback of the dialog box (lines 275-280)
close(g) == [g EXCEPT !.dialog = "removed",
                      !.inputs = [i \in 1..Len(g.inputs) |-> Undefined],
                      !._dialogComponent.status = "FINISHED"]

\* "update dictionary" (lines 227-234)
UpdateDictionary(g) ==
    [g EXCEPT !.dictionary = [i \in 1..Len(g.dictionary) |->
                                IF g.inputs[i] # Undefined
                                THEN Entry(g.dictionary[i].key, g.inputs[i])
                                ELSE g.dictionary[i]]]

\* the click handler of the OK button (lines 224-244)
onOkClicked(g) ==
    close([UpdateDictionary(g) EXCEPT !._dialogComponent.button = Str("OK"),
                                      !.last = "ok"])

\* a mutation of onCancelClicked: the values of the form are saved on Cancel
onCancelClickedSaving(g) ==
    close([UpdateDictionary(g) EXCEPT !._dialogComponent.button = Str("Cancel"),
                                      !.last = "cancel"])

\* the click handler of the Cancel button (lines 261-265)
onCancelClicked(g) ==
    close([g EXCEPT !._dialogComponent.button = Str("Cancel"), !.last = "cancel"])

\* the participant closes the dialog box with the cross of the title bar
onCrossClicked(g) == close([g EXCEPT !.last = "cross"])

\* _onResourceEvents(signal), as far as the OK button goes (lines 591-639)
_onResourceEvents(g, message) ==
    IF message = "DOWNLOAD_COMPLETED"
    THEN _updateOkButtonStatus([g EXCEPT !._allResourcesDownloaded = TRUE,
                                         !.completed = TRUE,
                                         !.last = message])
    ELSE [g EXCEPT !.last = message]

\* GUI._onKeyChange(gui, event) for the form input i (lines 688-703)
_onKeyChange(g, i) ==
    _updateOkButtonStatus(
        [g EXCEPT !._setRequiredKeys.keys =
            IF g.inputs[i] # Undefined /\ g.inputs[i].v # ""
            THEN @ \cup {i} ELSE @ \ {i}])

\* the participant picks an option of the select of entry i; a required
\* entry has the oninput handler (lines 212-219)
SelectOption(g, i, option) ==
    LET changed == [g EXCEPT !.inputs[i] = Str(option), !.edited = TRUE, !.last = "input"]
    IN IF i \in Range(g._requiredKeys) THEN _onKeyChange(changed, i) ELSE changed

HandlerIdle ==
    /\ options = Undefined
    /\ phase = "none"
    /\ mh = Null
    /\ twin = Null
    /\ call = NoCall
    /\ thrown = <<>>
    /\ addDataCalls = <<>>
    /\ forwarded = <<>>
    /\ selections = <<>>
    /\ events = <<>>

handlerVars ==
    <<options, phase, mh, twin, call, thrown, addDataCalls, forwarded, selections, events>>

InitGUI ==
    /\ HandlerIdle
    /\ gui \in {GUI(e, u) : e \in Environments, u \in UrlParameters}

CallDlgFromDict ==
    /\ gui.stage = "constructed"
    /\ \E d \in Dictionaries : gui' = DlgFromDict(gui, d)
    /\ UNCHANGED handlerVars

\* the scheduler calls the scheduled function
RunScheduled ==
    /\ gui.stage = "scheduled"
    /\ gui' = Scheduled(gui)
    /\ UNCHANGED handlerVars

ResourceEvent ==
    /\ gui.stage \in {"constructed", "scheduled"}
    /\ \E m \in Messages : gui' = _onResourceEvents(gui, m)
    /\ UNCHANGED handlerVars

ChangeInput ==
    /\ gui.stage = "scheduled"
    /\ gui.dialog = "open"
    /\ \E i \in 1..Len(gui.dictionary) :
          /\ gui.inputs[i] # Undefined
          /\ IsArray(gui.passed[i].value)
          /\ \E k \in 1..Len(gui.passed[i].value.v) :
                gui' = SelectOption(gui, i, gui.passed[i].value.v[k])
    /\ UNCHANGED handlerVars

ClickOk ==
    /\ gui.stage = "scheduled"
    /\ gui.dialog = "open"
    /\ ~gui.okDisabled
    /\ gui' = onOkClicked(gui)
    /\ UNCHANGED handlerVars

ClickCancel ==
    /\ gui.stage = "scheduled"
    /\ gui.dialog = "open"
    /\ gui' = onCancelClicked(gui)
    /\ UNCHANGED handlerVars

ClickCross ==
    /\ gui.stage = "scheduled"
    /\ gui.dialog = "open"
    /\ gui' = onCrossClicked(gui)
    /\ UNCHANGED handlerVars

NextGUI ==
    \/ CallDlgFromDict
    \/ RunScheduled
    \/ ResourceEvent
    \/ ChangeInput
    \/ ClickOk
    \/ ClickCancel
    \/ ClickCross

SpecGUI == InitGUI /\ [][NextGUI]_vars

-----------------------------------------------------------------------------
(* Properties *)

Ready == phase = "ready"

StaircaseIndices == 1..Len(mh._staircases)

Populated(self) == {t \in 1..Len(self._trialList) : self._trialList[t] # Undefined}

\* what an observer sees of the current trial: the label of the selected
\* procedure and the value it recommends
CurrentTrial(self) ==
    IF self._currentStaircase.t = "ref"
    THEN <<self._staircases[self._currentStaircase.ix]._name,
           getQuestValue(self._staircases[self._currentStaircase.ix])>>
    ELSE <<>>

\* C1: two handlers built with the same seed, conditions, policy and
\* duplicates and given the same valid responses select the same labels and
\* recommend the same values at every step, and fill their ledgers alike.
C1_Determinism ==
    (Ready /\ options.randomSeed # Undefined) =>
        /\ CurrentTrial(mh) = CurrentTrial(twin)
        /\ mh._trialList = twin._trialList
        /\ mh._finished = twin._finished

\* the responses the contract of addResponse accepts
AcceptedResponse(response) ==
    \/ response.t = "number" /\ response.v \in {0, 1}
    \/ response.t = "array" /\ \A i \in 1..Len(response.v) : response.v[i] \in {0, 1}

\* C2: addResponse returns normally exactly for the responses 0, 1 and the
\* arrays of 0s and 1s; for every other response it throws an error of
\* origin MultiStairHandler.addResponse.
C2_ResponseValidation ==
    call.op = "addResponse" =>
        /\ (thrown = <<>>) <=> AcceptedResponse(call.response)
        /\ thrown # <<>> => thrown[1].origin = "MultiStairHandler.addResponse"

C2_Witness ==
    /\ call.op = "addResponse"
    /\ call.response = Arr(<<0, 1, 2>>)
    /\ thrown # <<>>
    /\ ~mh._finished

\* C3: an addResponse call with an invalid response leaves the handler as it
\* was (current procedure, pass, trial key, cardinal, finished flag, ledger,
\* procedures), forwards nothing to a procedure and records nothing.
C3_InvalidResponseNoEffect ==
    [][(call'.op = "addResponse" /\ ~AcceptedResponse(call'.response)) =>
          /\ mh' = mh
          /\ selections' = selections
          /\ addDataCalls' = <<>>
          /\ forwarded' = <<>>]_vars

C3_Witness ==
    /\ call.op = "addResponse"
    /\ ~AcceptedResponse(call.response)
    /\ thrown # <<>>
    /\ ~mh._finished
    /\ Len(selections) > 1

\* the valid addResponse calls made while the handler was not finished: each
\* ran one selection step, which picked a procedure or finished the handler
ValidResponses ==
    IF mh._finished THEN Len(selections) ELSE Len(selections) - 1

SumOfBudgets == SumSeq([i \in StaircaseIndices |-> mh._staircases[i]._nTrials])

NoneFinishedEarly == \A i \in StaircaseIndices : ~FinishedEarly(mh._staircases[i])

AllTagged == \A i \in StaircaseIndices : mh._staircases[i].hasCardinal

C5_FinishedIffAllFinished ==
    Ready =>
        /\ mh._finished => \A i \in StaircaseIndices : mh._staircases[i].finished
        /\ (forwarded # <<>> /\ \A i \in StaircaseIndices : mh._staircases[i].finished)
              => mh._finished

\* C6: on a finished handler a valid addResponse does not throw, records the
\* response, and changes nothing else; no procedure is called and no
\* selection step runs.
C6_FinishedNoOp ==
    [][(Ready /\ mh._finished /\ call'.op = "addResponse"
          /\ AcceptedResponse(call'.response)) =>
          /\ thrown' = <<>>
          /\ addDataCalls' = [i \in 1..Len(Scalars(call'.response)) |->
                                [key |-> "trials.response",
                                 value |-> Scalars(call'.response)[i]]]
          /\ mh' = mh
          /\ forwarded' = <<>>
          /\ selections' = selections]_vars

C6_Witness ==
    /\ Ready
    /\ mh._finished
    /\ call.op = "addResponse"
    /\ thrown = <<>>
    /\ forwarded = <<>>
    /\ Len(addDataCalls) = 3

\* C7: the populated ledger slots are always a prefix of the ledger, and a
\* populated slot is never written again.
C7_LedgerMonotone ==
    /\ [](Ready => \A t \in Populated(mh) : \A u \in 1..t : u \in Populated(mh))
    /\ [][Ready => \A t \in Populated(mh) : mh'._trialList[t] = mh._trialList[t]]_vars

C7_Witness ==
    /\ Ready
    /\ Len(mh._trialList) = 2
    /\ Populated(mh) = {1, 2}
    /\ Len(selections) = 3

\* C8: the number of populated ledger slots always equals the number of
\* selection steps that picked a procedure, and when the handler is finished
\* the ledger has one populated slot per pick and no undefined slot.
C8_OneSlotPerPick ==
    Ready =>
        /\ Cardinality(Populated(mh)) = Len(selections)
        /\ mh._finished => Populated(mh) = 1..Len(selections)

\* the condition lists and stair types for which the contract says that
\* construction fails (a stair type left out is SIMPLE)
RejectedOptions(opts) ==
    \/ opts.conditions.t # "array"
    \/ opts.conditions.v = <<>>
    \/ opts.stairType # Str("QUEST")
    \/ \E i \in 1..Len(opts.conditions.v) :
          LET condition == opts.conditions.v[i]
          IN \/ condition.t # "object"
             \/ "startVal" \notin condition.has
             \/ "label" \notin condition.has
             \/ "startValSd" \notin condition.has

C10_FirstTrialReady ==
    (Ready /\ call.op = "constructor") =>
        /\ mh._currentStaircase.t = "ref"
        /\ ~mh._finished
        /\ Len(selections) = 1
        /\ mh._trialList[1] # Undefined
        /\ mh._trialList[1]["trials.intensity"] = CurrentTrial(mh)[2]
        /\ mh._trialList[1]["trials.contrast"] = CurrentTrial(mh)[2]
        /\ mh._trialList[1]["trials.label"] = CurrentTrial(mh)[1]

C10_Witness ==
    /\ Ready
    /\ call.op = "constructor"
    /\ mh._multiMethod = "FULL_RANDOM"
    /\ mh._currentStaircase.t = "ref"
    /\ mh._trialList[1]["trials.label"] = "B"

\* the positions in the events of the most recent call where op was done
EventsOf(op) == {i \in 1..Len(events) : events[i].op = op}

\* C11: a valid addResponse call records every scalar of the response exactly
\* once, in order, under the key <name>.response, and all of this recording
\* comes before the call on the current staircase and before the selection
\* step, whatever the value of doGiveToQuest.
C11_RecordedFirst ==
    (call.op = "addResponse" /\ AcceptedResponse(call.response)) =>
        LET scalars == Scalars(call.response)
        IN /\ addDataCalls = [i \in 1..Len(scalars) |->
                                 [key |-> mh._name \o ".response", value |-> scalars[i]]]
           /\ EventsOf("addData") = 1..Len(scalars)
           /\ \A i \in 1..Len(scalars) :
                 /\ events[i].key = mh._name \o ".response"
                 /\ events[i].value = scalars[i]
           /\ \A i \in EventsOf("staircase.addResponse") \cup EventsOf("_nextTrial") :
                 i > Len(scalars)

C11_Witness ==
    /\ call.op = "addResponse"
    /\ call.response = Arr(<<1, 0, 1>>)
    /\ Len(addDataCalls) = 3
    /\ Len(events) = 5
    /\ events[4].op = "staircase.addResponse"
    /\ events[5].op = "_nextTrial"

\* C13: on an unfinished handler every valid addResponse call runs exactly
\* one selection step, as the last thing it does and right after the call on
\* the staircase that was current; the step either picks a staircase, which
\* extends the record of picks by one, or finishes the handler, and the
\* earlier picks are kept as they were.
C13_OneSelectionPerResponse ==
    [][(Ready /\ ~mh._finished /\ call'.op = "addResponse"
          /\ AcceptedResponse(call'.response)) =>
          /\ thrown' = <<>>
          /\ EventsOf("_nextTrial")' = {Len(events')}
          /\ EventsOf("staircase.addResponse")' = {Len(events') - 1}
          /\ events'[Len(events') - 1].staircase = mh._currentStaircase.ix
          /\ \/ /\ mh'._finished
                /\ selections' = selections
             \/ /\ ~mh'._finished
                /\ mh'._currentStaircase.t = "ref"
                /\ selections' = selections \o Picked(mh')]_vars

C13_Witness ==
    /\ Ready
    /\ ~mh._finished
    /\ call.op = "addResponse"
    /\ call.doGiveToQuest = FALSE
    /\ thrown = <<>>
    /\ Len(selections) = 3
    /\ events[Len(events)].op = "_nextTrial"

\* the label of the staircase of the k-th pick
SelectedLabel(k) == mh._staircases[selections[k].staircase]._name

\* C12: under FULL_RANDOM the k-th selection carries the duplication cardinal
\* ((k - 1) mod duplicates) + 1, so the selections of one group carry 1, 2,
\* ..., duplicates in that order and the next group starts again at 1, and
\* the selections of one group are for the same label.
C12_DuplicationCycling ==
    (Ready /\ mh._multiMethod = "FULL_RANDOM") =>
        \A k \in 1..Len(selections) :
            /\ selections[k].cardinal = ((k - 1) % mh._duplicates) + 1
            /\ selections[k].cardinal > 1 => SelectedLabel(k) = SelectedLabel(k - 1)

C12_Witness ==
    /\ Ready
    /\ mh._multiMethod = "FULL_RANDOM"
    /\ mh._duplicates = 3
    /\ Len(selections) = 4
    /\ [k \in 1..4 |-> selections[k].cardinal] = <<1, 2, 3, 1>>
    /\ SelectedLabel(1) = "A"
    /\ SelectedLabel(4) = "B"
    /\ selections[1].staircase # selections[2].staircase

\* C14: the dictionary passed to DlgFromDict is written only by a click on
\* the OK button; it holds what was passed while the dialog box is open and
\* after the participant has pressed Cancel or closed the box.
C14_CancelKeepsDictionary ==
    /\ [](gui.stage = "scheduled" =>
            (gui.dictionary # gui.passed =>
                /\ gui._dialogComponent.status = "FINISHED"
                /\ gui._dialogComponent.button = Str("OK")))
    /\ [][(gui.stage = "scheduled" /\ gui'.dictionary # gui.dictionary)
            => gui'.last = "ok"]_vars

C14_Witness ==
    /\ gui.stage = "scheduled"
    /\ gui.last = "cancel"
    /\ gui.edited
    /\ gui._dialogComponent.status = "FINISHED"
    /\ gui._dialogComponent.button = Str("Cancel")
    /\ gui.dictionary = gui.passed
    /\ gui.passed[2].value = Arr(<<"a", "b">>)

\* the staircases of the pass as it was before the current one was taken
\* from it, by their indices in _staircases
PassWithCurrent(self) ==
    [k \in 1..(Len(self._currentPass) + 1) |->
        IF k = 1 THEN self._currentStaircase.ix ELSE self._currentPass[k - 1].ix]

UnfinishedIndices(self) ==
    {i \in 1..Len(self._staircases) : ~self._staircases[i].finished}

\* a valid response is being added to the unfinished handler under method
ValidStepUnder(method) ==
    /\ Ready
    /\ mh._multiMethod = method
    /\ ~mh._finished
    /\ call'.op = "addResponse"
    /\ AcceptedResponse(call'.response)

\* C15: under SEQUENTIAL the first pass lists all the procedures in
\* construction order; a selection step that finds the pass empty makes a
\* new pass of the unfinished procedures in construction order (or finishes
\* the handler when there is none), and a step that finds it non-empty takes
\* its first procedure and leaves the rest.
C15_SequentialOrder ==
    /\ []((Ready /\ mh._multiMethod = "SEQUENTIAL" /\ call.op = "constructor") =>
            PassWithCurrent(mh) = [i \in 1..Len(mh._staircases) |-> i])
    /\ [][ValidStepUnder("SEQUENTIAL") =>
            IF mh._currentPass = <<>>
            THEN IF UnfinishedIndices(mh') = {}
                 THEN mh'._finished
                 ELSE /\ mh'._currentStaircase.t = "ref"
                      /\ Range(PassWithCurrent(mh')) = UnfinishedIndices(mh')
                      /\ \A j, k \in 1..Len(PassWithCurrent(mh')) :
                            j < k => PassWithCurrent(mh')[j] < PassWithCurrent(mh')[k]
            ELSE /\ mh'._currentStaircase = Head(mh._currentPass)
                 /\ mh'._currentPass = Tail(mh._currentPass)]_vars

C15_Witness ==
    /\ Ready
    /\ mh._multiMethod = "SEQUENTIAL"
    /\ [k \in 1..Len(selections) |-> SelectedLabel(k)] = <<"A", "B", "A">>
    /\ mh._staircases[2].finished
    /\ mh._currentPass = <<>>

\* C16: under RANDOM a selection step that finds the pass empty makes a new
\* pass, which is the shuffle by the seeded generator of the unfinished
\* procedures and holds each of them once, and advances the generator; a
\* step that finds the pass non-empty takes its first procedure, leaves the
\* rest in order and does not touch the generator.
C16_RandomPass ==
    [][ValidStepUnder("RANDOM") =>
         IF mh._currentPass = <<>>
         THEN IF UnfinishedIndices(mh') = {}
              THEN mh'._finished
              ELSE LET sh == shuffle(SelectSeq([i \in 1..Len(mh'._staircases) |-> Ref(i)],
                                               LAMBDA r : r.ix \in UnfinishedIndices(mh')),
                                     mh._randomNumberGenerator)
                   IN /\ mh'._currentStaircase.t = "ref"
                      /\ Range(PassWithCurrent(mh')) = UnfinishedIndices(mh')
                      /\ Len(PassWithCurrent(mh')) = Cardinality(UnfinishedIndices(mh'))
                      /\ <<mh'._currentStaircase>> \o mh'._currentPass = sh[1]
                      /\ mh'._randomNumberGenerator = sh[2]
         ELSE /\ mh'._currentStaircase = Head(mh._currentPass)
              /\ mh'._currentPass = Tail(mh._currentPass)
              /\ mh'._randomNumberGenerator = mh._randomNumberGenerator]_vars

C16_Witness ==
    /\ Ready
    /\ mh._multiMethod = "RANDOM"
    /\ [k \in 1..Len(selections) |-> SelectedLabel(k)] = <<"B", "A", "A">>
    /\ call.op = "addResponse"
    /\ thrown = <<>>

\* every staircase carries a duplication cardinal (the test of line 310)
EveryTagged(self) == \A i \in 1..Len(self._staircases) : self._staircases[i].hasCardinal

\* the staircase that is current has the given label and, when every
\* staircase is tagged, the handler's cardinal as its tag
CurrentMatches(self, label) ==
    /\ self._currentStaircase.t = "ref"
    /\ self._staircases[self._currentStaircase.ix]._name = label
    /\ EveryTagged(self) =>
          self._staircases[self._currentStaircase.ix]._duplicatedConditionCardinal
             = self._duplicatedTrialCardinal

\* C17: under FULL_RANDOM a selection step that finds unfinished procedures
\* advances the duplication cardinal, takes exactly one label from the front
\* of the trial key, and makes current the procedure with that label (and
\* with the cardinal as its tag when every procedure is tagged); the pass was
\* that procedure alone, so it is empty afterwards.
C17_FullRandomStep ==
    /\ []((Ready /\ mh._multiMethod = "FULL_RANDOM" /\ call.op = "constructor") =>
            /\ mh._duplicatedTrialCardinal = 1
            /\ mh._currentStaircase.t = "ref"
            /\ CurrentMatches(mh, SelectedLabel(1))
            /\ mh._currentPass = <<>>)
    /\ [][(ValidStepUnder("FULL_RANDOM") /\ UnfinishedIndices(mh') # {}) =>
            /\ mh'._duplicatedTrialCardinal
                  = (mh._duplicatedTrialCardinal % mh._duplicates) + 1
            /\ mh.trialKey # <<>>
            /\ mh'.trialKey = Tail(mh.trialKey)
            /\ CurrentMatches(mh', Head(mh.trialKey))
            /\ mh'._currentPass = <<>>]_vars

KeyAtConstruction ==
    IF mh._multiMethod = "FULL_RANDOM"
    THEN <<SelectedLabel(1)>> \o mh.trialKey
    ELSE mh.trialKey

\* the trial budget of condition i: its own nTrials, else the handler's
Budget(i) ==
    IF "nTrials" \in mh._conditions.v[i].has
    THEN mh._conditions.v[i].nTrials
    ELSE mh._nTrials

ConditionIndices == 1..Len(mh._conditions.v)

\* the conditions that put their label on the key: those without a
\* duplication tag and those whose tag is 1
KeyConditions ==
    {i \in ConditionIndices :
        \/ "_duplicatedConditionCardinal" \notin mh._conditions.v[i].has
        \/ mh._conditions.v[i]._duplicatedConditionCardinal = 1}

\* the sum of the budgets of the conditions of a set
RECURSIVE BudgetOf(_)
BudgetOf(is) ==
    IF is = {} THEN 0
    ELSE LET i == CHOOSE x \in is : TRUE IN Budget(i) + BudgetOf(is \ {i})

\* the key is made of consecutive groups of `duplicates` equal labels
InGroups(key, d) ==
    /\ Len(key) % d = 0
    /\ \A k \in 1..Len(key) : key[k] = key[((k - 1) \div d) * d + 1]

\* C19 as stated: the trial key built at construction has length (sum over
\* all conditions of the budget) x duplicates, holds the label of each
\* condition budget x duplicates times, and is made of groups of
\* `duplicates` equal labels.
C19_Original ==
    (Ready /\ call.op = "constructor") =>
        /\ Len(KeyAtConstruction) = BudgetOf(ConditionIndices) * mh._duplicates
        /\ \A i \in ConditionIndices :
              Count(KeyAtConstruction, mh._conditions.v[i].label)
                 = Budget(i) * mh._duplicates
        /\ InGroups(KeyAtConstruction, mh._duplicates)

\* C19 as amended: only the conditions without a duplication tag or with tag
\* 1 count.  The key has length (sum of their budgets) x duplicates, holds
\* each label (sum of the budgets of those of them that have the label) x
\* duplicates times, and is made of groups of `duplicates` equal labels.
C19_TrialKeyBuilt ==
    (Ready /\ call.op = "constructor") =>
        /\ Len(KeyAtConstruction) = BudgetOf(KeyConditions) * mh._duplicates
        /\ \A i \in ConditionIndices :
              Count(KeyAtConstruction, mh._conditions.v[i].label)
                 = BudgetOf({j \in KeyConditions :
                               mh._conditions.v[j].label = mh._conditions.v[i].label})
                   * mh._duplicates
        /\ InGroups(KeyAtConstruction, mh._duplicates)

C19_Witness ==
    /\ Ready
    /\ call.op = "constructor"
    /\ mh._multiMethod = "RANDOM"
    /\ mh._duplicates = 2
    /\ Len(mh._conditions.v) = 2
    /\ KeyAtConstruction = <<"A", "A", "B", "B", "A", "A">>

\* two staircases have the same label only if they are tagged with
\* different duplication cardinals
DistinctLabels ==
    \A i, j \in StaircaseIndices :
        (i # j /\ mh._staircases[i]._name = mh._staircases[j]._name) =>
            /\ mh._staircases[i].hasCardinal
            /\ mh._staircases[j].hasCardinal
            /\ mh._staircases[i]._duplicatedConditionCardinal
                  # mh._staircases[j]._duplicatedConditionCardinal

\* the trials the staircases have still to run
RemainingTrials ==
    SumSeq([i \in StaircaseIndices |->
               mh._staircases[i]._nTrials - mh._staircases[i].nResponses])

\* a FULL_RANDOM handler whose key was built for its staircases: labels
\* distinct, duplicates spent on tagged copies, no staircase finished early
KeyMatchesBudgets ==
    /\ Ready
    /\ mh._multiMethod = "FULL_RANDOM"
    /\ DistinctLabels
    /\ mh._duplicates = 1 \/ AllTagged
    /\ NoneFinishedEarly

C21_UniqueLabels == Ready => DistinctLabels

\* C22: a valid addResponse on an unfinished handler makes exactly one call
\* on a staircase, the one that was current when the call started, with the
\* response, the value and the doGiveToQuest flag it was given; that
\* staircase takes the response and every other staircase is left as it was.
\* A staircase changes only in a step that starts with it being current.
C22_ForwardedToCurrent ==
    /\ [][(Ready /\ ~mh._finished /\ call'.op = "addResponse"
            /\ AcceptedResponse(call'.response)) =>
            /\ forwarded' = <<[staircase |-> mh._currentStaircase.ix,
                               response |-> call'.response,
                               value |-> call'.value,
                               doAddData |-> FALSE,
                               doGiveToQuest |-> call'.doGiveToQuest]>>
            /\ \E stop \in BOOLEAN :
                  mh'._staircases[mh._currentStaircase.ix]
                     = QuestAddResponse(mh._staircases[mh._currentStaircase.ix],
                                        call'.response, call'.value,
                                        call'.doGiveToQuest, stop)
            /\ \A i \in StaircaseIndices :
                  i # mh._currentStaircase.ix => mh'._staircases[i] = mh._staircases[i]]_vars
    /\ [][Ready => \A i \in StaircaseIndices :
                     mh'._staircases[i] # mh._staircases[i]
                        => mh._currentStaircase = Ref(i)]_vars

C22_Witness ==
    /\ Ready
    /\ call.op = "addResponse"
    /\ Len(forwarded) = 1
    /\ forwarded[1].staircase = 2
    /\ forwarded[1].value = Num(7)
    /\ forwarded[1].doGiveToQuest = FALSE
    /\ mh._staircases[2].nResponses = 1
    /\ mh._staircases[1].nResponses = 1

\* the ledger slots that the step fills
FilledByStep ==
    Populated(mh') \ (IF phase = "ready" THEN Populated(mh) ELSE {})

\* the field names a ledger entry holds: the two names of the value, the
\* label, and the user attributes other than name, trialList and extraInfo
EntryKeys(self) ==
    {self._name \o "." \o self._varName, self._name \o ".intensity",
     self._name \o ".label"}
    \cup {self._name \o "." \o a :
             a \in Range(UserAttributes) \ {"name", "trialList", "extraInfo"}}

C29_FinishedIffNoCurrent ==
    (Ready /\ thrown = <<>>) =>
        /\ mh._finished <=> mh._currentStaircase = Undefined
        /\ ~mh._finished <=> mh._currentStaircase.t = "ref"

C29_Witness ==
    /\ Ready
    /\ call.op = "addResponse"
    /\ thrown = <<>>
    /\ forwarded # <<>>
    /\ mh._finished
    /\ mh._currentStaircase = Undefined
    /\ Populated(mh) = 1..Len(mh._trialList)

\* C30: once the handler is finished it stays finished whatever addResponse
\* calls follow, and no staircase becomes current again.
C30_FinishedForGood ==
    [][(Ready /\ mh._finished) =>
          /\ mh'._finished
          /\ mh'._currentStaircase = Undefined]_vars

C30_Witness ==
    /\ Ready
    /\ mh._finished
    /\ mh._currentStaircase = Undefined
    /\ call.op = "addResponse"
    /\ forwarded = <<>>
    /\ thrown = <<>>
    /\ call.response = Num(0)

\* the last ledger slot that is filled (the slots are filled in order)
LastFilled(self) == Cardinality(Populated(self))

\* the snapshots that the step changes
SnapshotsChanged ==
    {k \in 1..Len(mh._snapshots) : mh'._snapshots[k] # mh._snapshots[k]}

\* C26: when a selection step finishes the handler, the finished flag is set
\* on the snapshot of the last ledger slot that is filled whenever there is a
\* snapshot for that slot, and no other snapshot is changed.
C26_FinishedSnapshot ==
    [][(Ready /\ ~mh._finished /\ mh'._finished) =>
          LET f == LastFilled(mh')
          IN /\ Len(mh'._snapshots) = Len(mh._snapshots)
             /\ f \in 1..Len(mh._snapshots) =>
                   /\ mh'._snapshots[f].finished
                   /\ SnapshotsChanged = {f}
             /\ f \notin 1..Len(mh._snapshots) => SnapshotsChanged = {}]_vars

\* C27: when a selection step fills ledger slot t and there is a snapshot
\* for slot t, that snapshot gets the keys of the ledger entry with the same
\* values, the names of the fields written are appended to its
\* trialAttributes, and no other snapshot is changed; when there is no
\* snapshot for slot t no snapshot is changed.
C27_SnapshotMirror ==
    [][(Ready /\ phase' = "ready") =>
          \A t \in FilledByStep :
             IF t <= Len(mh._snapshots)
             THEN LET entry == mh'._trialList[t]
                      before == mh._snapshots[t]
                      after == mh'._snapshots[t]
                      n == Len(before.trialAttributes)
                      names == SubSeq(after.trialAttributes, n + 1,
                                      Len(after.trialAttributes))
                  IN /\ DOMAIN after.fields = DOMAIN before.fields \cup DOMAIN entry
                     /\ \A k \in DOMAIN entry : after.fields[k] = entry[k]
                     /\ SubSeq(after.trialAttributes, 1, n) = before.trialAttributes
                     /\ Range(names) = DOMAIN entry
                     /\ Len(names) = Cardinality(DOMAIN entry)
                     /\ after.finished = before.finished
                     /\ SnapshotsChanged = {t}
             ELSE mh'._snapshots = mh._snapshots]_vars

C27_Witness ==
    /\ Ready
    /\ call.op = "addResponse"
    /\ Len(mh._snapshots) = 3
    /\ Populated(mh) = {1, 2}
    /\ mh._snapshots[2].fields = mh._trialList[2]
    /\ Len(mh._snapshots[2].trialAttributes) = 8
    /\ mh._snapshots[2].trialAttributes[3] = "trials.label"
    /\ mh._snapshots[1].trialAttributes = <<>>
    /\ mh._snapshots[3].trialAttributes = <<>>

\* the state of the handler that an addResponse call works on
CoordinatorState(self) ==
    [_currentStaircase |-> self._currentStaircase,
     _currentPass |-> self._currentPass,
     trialKey |-> self.trialKey,
     _duplicatedTrialCardinal |-> self._duplicatedTrialCardinal,
     _trialList |-> self._trialList,
     _finished |-> self._finished]

\* C23: an addResponse call that throws, be it from the update of the
\* current staircase or from the selection step, leaves the current
\* staircase, the pass, the trial key, the duplication cardinal, the ledger
\* and the finished flag as they were before the call.
C23_NoPartialFailure ==
    [][(Ready /\ call'.op = "addResponse" /\ thrown' # <<>>) =>
          CoordinatorState(mh') = CoordinatorState(mh)]_vars

\* the methods of MultiStairHandler that throw
CoordinatorOrigins ==
    {"MultiStairHandler.addResponse", "MultiStairHandler._validateConditions",
     "MultiStairHandler._prepareStaircases", "MultiStairHandler._nextTrial"}

\* C24: every error thrown by the constructor or by addResponse is an
\* {origin, context, error} object whose origin is a method of
\* MultiStairHandler, whether it comes from the validation of the
\* conditions, the preparation of the staircases, the validation of the
\* response, the update of the current staircase or the selection step.
C24_ErrorsWrapped ==
    thrown # <<>> =>
        /\ DOMAIN thrown[1] = {"origin", "context", "error"}
        /\ thrown[1].origin \in CoordinatorOrigins

\* every required key has been set (the test of _updateOkButtonStatus)
AllRequiredSet(g) ==
    /\ g._setRequiredKeys.t = "map"
    /\ Cardinality(g._setRequiredKeys.keys) >= Len(g._requiredKeys)

\* C28: while the dialog box of DlgFromDict is open, the OK button is
\* enabled in a LOCAL environment, and in any environment it is enabled once
\* DOWNLOAD_COMPLETED has been received and every required key is set,
\* whether the event came before the call of DlgFromDict, between the call
\* and the opening of the box, or after it.
C28_OkEnabled ==
    (gui.stage = "scheduled" /\ gui.dialog = "open") =>
        /\ gui.environment = "LOCAL" => ~gui.okDisabled
        /\ (gui.completed /\ AllRequiredSet(gui)) => ~gui.okDisabled

\* C31: under every policy a staircase that has reported itself finished is
\* not made current again and receives no further response: the current
\* staircase, which is the one the next response goes to, is unfinished.
C31_FinishedNeverSelected ==
    (Ready /\ mh._currentStaircase.t = "ref") =>
        ~mh._staircases[mh._currentStaircase.ix].finished

\* the number of times staircase i has been selected
\* the pairs of consecutive selections of one staircase
ConsecutiveSelections ==
    {p \in (1..Len(selections)) \X (1..Len(selections)) :
        /\ p[1] < p[2]
        /\ selections[p[1]].staircase = selections[p[2]].staircase
        /\ \A k \in (p[1] + 1)..(p[2] - 1) :
              selections[k].staircase # selections[p[1]].staircase}

\* the number of selections of staircase q between selections i and j
Between(i, j, q) ==
    Cardinality({k \in (i + 1)..(j - 1) : selections[k].staircase = q})

\* C32 as stated: under SEQUENTIAL and RANDOM, between two consecutive
\* selections of one staircase every other staircase that was unfinished when
\* the passes were made is selected exactly once, and the selection counts
\* of two unfinished staircases differ by at most 1.
C32_Original ==
    (Ready /\ mh._multiMethod \in {"SEQUENTIAL", "RANDOM"}) =>
        /\ UnfinishedIndices(mh) = StaircaseIndices =>
              \A p \in ConsecutiveSelections :
                 \A q \in StaircaseIndices \ {selections[p[1]].staircase} :
                    Between(p[1], p[2], q) = 1
        /\ \A i, j \in UnfinishedIndices(mh) :
              Between(0, Len(selections) + 1, i) - Between(0, Len(selections) + 1, j) <= 1

\* C32 as amended: under SEQUENTIAL and RANDOM the selection counts of two
\* unfinished staircases differ by at most 1.  Between two consecutive
\* selections of one staircase every other staircase that was unfinished
\* when the passes were made is selected exactly once under SEQUENTIAL, and
\* at most twice (possibly not at all) under RANDOM, where the two
\* selections are in passes that are shuffled independently.
C32_RoundRobin ==
    (Ready /\ mh._multiMethod \in {"SEQUENTIAL", "RANDOM"}) =>
        /\ UnfinishedIndices(mh) = StaircaseIndices =>
              \A p \in ConsecutiveSelections :
                 \A q \in StaircaseIndices \ {selections[p[1]].staircase} :
                    IF mh._multiMethod = "SEQUENTIAL"
                    THEN Between(p[1], p[2], q) = 1
                    ELSE Between(p[1], p[2], q) \in 0..2
        /\ \A i, j \in UnfinishedIndices(mh) :
              Between(0, Len(selections) + 1, i) - Between(0, Len(selections) + 1, j) <= 1

C32_Witness ==
    /\ Ready
    /\ mh._multiMethod = "RANDOM"
    /\ UnfinishedIndices(mh) = StaircaseIndices
    /\ [k \in 1..Len(selections) |-> selections[k].staircase] = <<1, 2, 2, 1>>
    /\ <<1, 4>> \in ConsecutiveSelections
    /\ Between(1, 4, 2) = 2

\* C33: under FULL_RANDOM, with a trial key of length L at construction, the
\* handler is finished after at most L valid addResponse calls.  While the
\* handler is unfinished every label taken from the key made a staircase
\* current, so the selections made and the labels left add up to L; a valid
\* response to the unfinished handler either finishes it or makes one more
\* selection, so an unfinished handler has had fewer than L valid responses.
\* A selection step that finds the key empty, or takes a label that matches
\* no staircase, leaves no current staircase and the handler finished.
C33_KeyBound ==
    /\ []((Ready /\ mh._multiMethod = "FULL_RANDOM" /\ ~mh._finished) =>
            /\ Len(selections) >= 1
            /\ Len(selections) + Len(mh.trialKey)
                  = Len(TrialKeyBuilt(mh)) * mh._duplicates)
    /\ [][ValidStepUnder("FULL_RANDOM") =>
            /\ mh'._finished \/ Len(selections') = Len(selections) + 1
            /\ (\/ mh.trialKey = <<>>
                \/ PickHandler(mh', <<Head(mh.trialKey)>>, NextCardinal(mh)) = Undefined)
                  => (mh'._finished /\ mh'._currentStaircase = Undefined)]_vars

C33_Witness ==
    /\ Ready
    /\ mh._multiMethod = "FULL_RANDOM"
    /\ mh._finished
    /\ mh.trialKey = <<>>
    /\ Len(TrialKeyBuilt(mh)) * mh._duplicates = 2
    /\ Len(selections) = 2
    /\ UnfinishedIndices(mh) # {}
    /\ call.op = "addResponse"
    /\ AcceptedResponse(call.response)
    /\ forwarded # <<>>

\* C34: a construction without a stair type (the stair type is then SIMPLE)
\* fails with the error of _validateConditions whatever the conditions are,
\* and with its message about simple staircases when the conditions are a
\* non empty array; a handler is constructed only with stair type QUEST, and
\* its staircases are then QUEST staircases, one per condition, in the order
\* of the conditions.
C34_OnlyQuest ==
    phase # "new" =>
        /\ options.stairType = Undefined =>
              /\ phase = "failed"
              /\ thrown # <<>>
              /\ thrown[1].error.origin = "MultiStairHandler._validateConditions"
              /\ (IsArray(options.conditions) /\ options.conditions.v # <<>>) =>
                    thrown[1].error.error
                       = Str("'simple' staircases are currently not supported")
        /\ Ready =>
              /\ options.stairType = Str("QUEST")
              /\ mh._stairType = Str("QUEST")
              /\ Len(mh._staircases) = Len(options.conditions.v)
              /\ \A i \in StaircaseIndices :
                    LET condition == options.conditions.v[i]
                    IN /\ mh._staircases[i]._name = condition.label
                       /\ mh._staircases[i]._startVal = condition.startVal
                       /\ mh._staircases[i].attributes.startValSd = condition.startValSd
                       /\ mh._staircases[i]._userAttributes = UserAttributes

C34_Witness ==
    /\ phase = "failed"
    /\ options.stairType = Undefined
    /\ options.conditions = Arr(<<condA, condB1>>)
    /\ thrown[1].error.error = Str("'simple' staircases are currently not supported")

\* C35: the seeded generator of the handler is advanced only when a pass is
\* made under RANDOM.  A handler constructed under SEQUENTIAL or FULL_RANDOM
\* has the generator as it was seeded, and one constructed under RANDOM has
\* the generator as the shuffle of the first pass left it; after that the
\* generator changes only in a valid addResponse on an unfinished RANDOM
\* handler whose pass is empty, never under SEQUENTIAL or FULL_RANDOM and
\* never in a RANDOM step that takes a staircase from a non-empty pass.
C35_GeneratorFrame ==
    /\ []((Ready /\ mh._multiMethod \in {"SEQUENTIAL", "FULL_RANDOM"}) =>
            mh._randomNumberGenerator
               \in {seedrandom(options.randomSeed, e) : e \in EntropyOf(options)})
    /\ []((Ready /\ mh._multiMethod = "RANDOM" /\ call.op = "constructor") =>
            mh._randomNumberGenerator
               \in {shuffle([i \in StaircaseIndices |-> Ref(i)], x)[2] :
                      x \in {seedrandom(options.randomSeed, e) :
                                e \in EntropyOf(options)}})
    /\ [][(Ready /\ mh'._randomNumberGenerator # mh._randomNumberGenerator) =>
            /\ ValidStepUnder("RANDOM")
            /\ mh._currentPass = <<>>]_vars

C35_Witness ==
    /\ Ready
    /\ mh._multiMethod = "RANDOM"
    /\ options.randomSeed = Num(1)
    /\ Len(mh._staircases) = 2
    /\ Len(selections) = 3
    /\ call.op = "addResponse"
    /\ mh._randomNumberGenerator
          = RngNext(RngNext(seedrandom(options.randomSeed, 0)))

\* C36: addResponse with an array without elements throws nothing and makes
\* no experiment.addData call; on an unfinished handler it makes one call on
\* the staircase that is current, with the empty array, and then one
\* selection step; on a finished handler it does neither.
C36_EmptyResponse ==
    [][(Ready /\ call'.op = "addResponse" /\ call'.response = Arr(<<>>)) =>
          /\ thrown' = <<>>
          /\ addDataCalls' = <<>>
          /\ ~mh._finished =>
                /\ forwarded' = <<[staircase |-> mh._currentStaircase.ix,
                                   response |-> Arr(<<>>),
                                   value |-> call'.value,
                                   doAddData |-> FALSE,
                                   doGiveToQuest |-> call'.doGiveToQuest]>>
                /\ Cardinality({i \in 1..Len(events') : events'[i] = NextTrialEvent}) = 1
                /\ events'[Len(events')] = NextTrialEvent
                /\ selections' = selections \o Picked(mh')
          /\ mh._finished =>
                /\ forwarded' = <<>>
                /\ NextTrialEvent \notin Range(events')
                /\ mh' = mh]_vars

C36_Witness ==
    /\ Ready
    /\ call.op = "addResponse"
    /\ call.response = Arr(<<>>)
    /\ thrown = <<>>
    /\ addDataCalls = <<>>
    /\ Len(forwarded) = 1
    /\ forwarded[1].response = Arr(<<>>)
    /\ NextTrialEvent \in Range(events)
    /\ Len(selections) = 2
    /\ ~mh._finished

\* C37: the trial list has as many slots as the nTrials option of the handler
\* says, whatever the conditions, their own nTrials and duplicates are, and
\* its length never changes; a selection step that makes a staircase current
\* when no slot is undefined leaves the trial list and the snapshots as they
\* were.
C37_LedgerSize ==
    /\ [](Ready => Len(mh._trialList) = options.nTrials)
    /\ [][Ready => Len(mh'._trialList) = Len(mh._trialList)]_vars
    /\ [][(/\ Ready /\ ~mh._finished
           /\ call'.op = "addResponse" /\ AcceptedResponse(call'.response)
           /\ Populated(mh) = 1..Len(mh._trialList)
           /\ mh'._currentStaircase.t = "ref") =>
             /\ mh'._trialList = mh._trialList
             /\ mh'._snapshots = mh._snapshots]_vars

C37_Witness ==
    /\ Ready
    /\ call.op = "addResponse"
    /\ mh._currentStaircase.t = "ref"
    /\ Len(mh._conditions.v) = 2
    /\ options.nTrials = 2
    /\ Populated(mh) = 1..2
    /\ Len(selections) = 3
    /\ Len(mh._snapshots) = 2
    /\ mh._snapshots[2].trialAttributes # <<>>

====
